---- MODULE Spec2Model ----
(***************************************************************************)
(* A model of examples/seccheck/server.cc: the seccheck event receiver.    *)
(*                                                                         *)
(* main() binds a SOCK_SEQPACKET unix socket, starts pollLoop() on a       *)
(* detached thread and accepts connections, adding each to the epoll set.  *)
(* pollLoop() waits for readiness, reads one message per ready descriptor  *)
(* and hands it to unpack(), which decodes the frame header, parses the    *)
(* google.protobuf.Any envelope and calls the callback registered for the  *)
(* type name in `dispatchers`.                                             *)
(*                                                                         *)
(* Bytes are naturals 0..255, buffers are sequences of bytes.  32-bit      *)
(* unsigned values are kept as two 16-bit halves so that the subtraction   *)
(* of line 88 wraps exactly as uint32_t does.                              *)
(***************************************************************************)
EXTENDS Integers, Sequences, FiniteSets, TLC

VARIABLES
    mainPc,       \* main(): the statement the main thread is at
    pollPc,       \* pollLoop(): "off" before pthread_create, then "wait"/"in"/"hup"/"next"
    exitMsg,      \* "none" while the process runs, else what ended it
    sockFile,     \* a file exists at the socket path
    backlog,      \* connections made by peers and not yet accepted (FIFO)
    conns,        \* per connection: server side state, descriptor, queue, peer
    registered,   \* descriptors in the epoll interest list
    client,       \* main(): the descriptor accept() returned
    evts,         \* pollLoop(): the events epoll_wait() returned
    evtIdx,       \* pollLoop(): the loop index i (1-based)
    pollErrno,    \* pollLoop(): outcome of the last epoll_wait()
    acceptErrno,  \* main(): outcome of the last accept()
    dispatchers,  \* the global std::map<std::string, Callback>
    sent,         \* messages the peers have sent so far
    last          \* pollLoop(): the event being handled, its read() and what unpack() did

vars == <<mainPc, pollPc, exitMsg, sockFile, backlog, conns, registered, client,
          evts, evtIdx, pollErrno, acceptErrno, dispatchers, sent, last>>

----------------------------------------------------------------------------
(* Bounds of the model *)

\* connections the peers make during one run
MaxConns == 2
\* messages the peers send during one run, over all connections
MaxMsgs == 2

ConnIds == 1..MaxConns
\* the descriptors accept() may hand out (the lowest free one is)
Fds == 1..MaxConns

----------------------------------------------------------------------------
(* Program constants *)

\* a prefix length one short of the prefix: sizeof("type.googleapis.com/") - 2
prefixLenShort == 20 - 1
\* sizeof("type.googleapis.com/") - 1
prefixLen == 20
\* 300 * 1024
maxEventSize == 307200
\* listen(sock, 5)
listenBacklog == 5

\* "type.googleapis.com/"
typePrefix == <<116, 121, 112, 101, 46, 103, 111, 111, 103, 108, 101, 97, 112,
                105, 115, 46, 99, 111, 109, 47>>
\* "gvisor.syscall.Read"
nameRead == <<103, 118, 105, 115, 111, 114, 46, 115, 121, 115, 99, 97, 108, 108,
              46, 82, 101, 97, 100>>
\* "gvisor.syscall.Open"
nameOpen == <<103, 118, 105, 115, 111, 114, 46, 115, 121, 115, 99, 97, 108, 108,
              46, 79, 112, 101, 110>>
\* "gvisor.container.Start"
nameStart == <<103, 118, 105, 115, 111, 114, 46, 99, 111, 110, 116, 97, 105, 110,
               101, 114, 46, 83, 116, 97, 114, 116>>

\* '.' and '/'
chDot == 46
chSlash == 47

----------------------------------------------------------------------------
(* 32-bit unsigned arithmetic, as two 16-bit halves *)

W16 == 2 ^ 16

U32(hi, lo) == [hi |-> hi, lo |-> lo]

\* the uint32_t whose little-endian bytes are b0 b1 b2 b3
U32OfBytes(b0, b1, b2, b3) == U32(b2 + 256 * b3, b0 + 256 * b1)

\* a natural below 2^31 as uint32_t
U32OfNat(n) == U32(n \div W16, n % W16)

\* a - n in uint32_t, for 0 <= n < 2^16: wraps below zero
U32Sub(a, n) ==
    LET borrow == IF a.lo < n THEN 1 ELSE 0
    IN U32((a.hi - borrow) % W16, (a.lo - n) % W16)

\* a comparison that also accepts equal values
U32Ge(a, b) == a.hi > b.hi \/ (a.hi = b.hi /\ a.lo >= b.lo)

U32Gt(a, b) == a.hi > b.hi \/ (a.hi = b.hi /\ a.lo > b.lo)

\* a test for a negative value, were the operand read as signed
U32IsNegative(a) == a.hi >= 2 ^ 15

U32IsZero(a) == a.hi = 0 /\ a.lo = 0

----------------------------------------------------------------------------
(* google::protobuf wire format, as far as Any::ParseFromArray and            *)
(* Any::UnpackTo use it                                                        *)

\* a varint longer than four bytes saturates here: no buffer of the model is
\* that long, so such a value only ever fails a length check
VarintCap == 128 ^ 4

RECURSIVE ReadVarintFrom(_, _, _, _)
ReadVarintFrom(b, pos, k, acc) ==
    IF pos > Len(b) \/ k >= 10
    THEN [ok |-> FALSE, val |-> 0, next |-> pos]
    ELSE LET x == b[pos]
             low == x % 128
             sum == IF k >= 4 THEN VarintCap ELSE acc + low * (128 ^ k)
         IN IF x < 128
            THEN [ok |-> TRUE, val |-> sum, next |-> pos + 1]
            ELSE ReadVarintFrom(b, pos + 1, k + 1, sum)

ReadVarint(b, pos) == ReadVarintFrom(b, pos, 0, 0)

\* proto3 strings must be UTF-8; the model's inputs hold single-byte
\* characters only, so a byte >= 128 is an invalid sequence
IsUtf8(s) == \A k \in 1..Len(s) : s[k] < 128

AnyDefault == [ok |-> TRUE, type_url |-> <<>>, value |-> <<>>]
AnyFail == [ok |-> FALSE, type_url |-> <<>>, value |-> <<>>]

\* Parse the fields of an Any from position pos of b: field 1 (type_url, a
\* string) and field 2 (value, bytes) are kept, the last occurrence winning;
\* other fields are skipped by wire type.  Group wire types (3, 4) and the
\* invalid ones (6, 7) end the parse with a failure.
RECURSIVE ParseAnyFrom(_, _, _)
ParseAnyFrom(b, pos, acc) ==
    IF pos > Len(b) THEN acc
    ELSE
      LET tag == ReadVarint(b, pos)
          wt == b[pos] % 8
          fld == tag.val \div 8
      IN IF ~tag.ok \/ fld = 0 THEN AnyFail
         ELSE IF wt = 0 THEN
            LET v == ReadVarint(b, tag.next)
            IN IF ~v.ok THEN AnyFail ELSE ParseAnyFrom(b, v.next, acc)
         ELSE IF wt = 1 THEN
            IF tag.next + 7 > Len(b) THEN AnyFail
            ELSE ParseAnyFrom(b, tag.next + 8, acc)
         ELSE IF wt = 5 THEN
            IF tag.next + 3 > Len(b) THEN AnyFail
            ELSE ParseAnyFrom(b, tag.next + 4, acc)
         ELSE IF wt = 2 THEN
            LET n == ReadVarint(b, tag.next)
            IN IF ~n.ok \/ n.next + n.val - 1 > Len(b) THEN AnyFail
               ELSE LET s == SubSeq(b, n.next, n.next + n.val - 1)
                        nxt == n.next + n.val
                    IN IF fld = 1
                       THEN IF IsUtf8(s)
                            THEN ParseAnyFrom(b, nxt, [acc EXCEPT !.type_url = s])
                            ELSE AnyFail
                       ELSE IF fld = 2
                       THEN ParseAnyFrom(b, nxt, [acc EXCEPT !.value = s])
                       ELSE ParseAnyFrom(b, nxt, acc)
         ELSE AnyFail

\* any.ParseFromArray(proto.data(), proto.size())
ParseFromArray(proto) == ParseAnyFrom(proto, 1, AnyDefault)

\* position (1-based) of the last occurrence of ch in s, 0 for npos
RECURSIVE find_last_of(_, _)
find_last_of(s, ch) ==
    IF Len(s) = 0 THEN 0
    ELSE IF s[Len(s)] = ch THEN Len(s)
    ELSE find_last_of(SubSeq(s, 1, Len(s) - 1), ch)

\* the full name of the message type T of a callback
FullName(T) ==
    CASE T = "Read" -> nameRead
      [] T = "Open" -> nameOpen
      [] T = "Start" -> nameStart

\* Any::Is<T>(): the part of type_url after its last '/' is T's full name
AnyIs(any, T) ==
    LET slash == find_last_of(any.type_url, chSlash)
    IN /\ slash > 0
       /\ slash < Len(any.type_url)
       /\ SubSeq(any.type_url, slash + 1, Len(any.type_url)) = FullName(T)

\* T::ParseFromString(value): the per-type decoder of the payload.  The
\* generated message classes are not part of the source at hand; a payload
\* decodes when it is a well-formed sequence of wire-format fields.
Decodes(T, value) == ParseAnyFrom(value, 1, AnyDefault).ok

\* any.UnpackTo(&evt)
UnpackTo(any, T) == AnyIs(any, T) /\ Decodes(T, any.value)

----------------------------------------------------------------------------
(* The callbacks and the dispatch table *)

\* what a callback did: exit is the err() message that ended the process
\* ("none" when it returned), printed the name it printed
CbResult(exit, printed) == [exit |-> exit, printed |-> printed]

\* template <class T> void unpackSyscall(const google::protobuf::Any& any)
unpackSyscall(T, any) ==
    IF ~UnpackTo(any, T) THEN CbResult("UnpackTo()", <<>>)
    ELSE LET last_dot == find_last_of(any.type_url, chDot)
         IN IF last_dot = 0 THEN CbResult("invalid name", <<>>)
            ELSE CbResult("none",
                          SubSeq(any.type_url, last_dot + 1, Len(any.type_url)))

\* template <class T> void unpack(const google::protobuf::Any& any)
unpackT(T, any) ==
    IF ~UnpackTo(any, T) THEN CbResult("UnpackTo()", <<>>)
    ELSE CbResult("none", SubSeq(any.type_url, prefixLen + 1, Len(any.type_url)))

\* a Callback value: nullptr, or one of the three instantiations
Callbacks == {"unpackSyscall<Read>", "unpackSyscall<Open>", "unpack<Start>"}

\* cb(any)
Call(cb, any) ==
    CASE cb = "unpackSyscall<Read>" -> unpackSyscall("Read", any)
      [] cb = "unpackSyscall<Open>" -> unpackSyscall("Open", any)
      [] cb = "unpack<Start>" -> unpackT("Start", any)

\* std::map<std::string, Callback> dispatchers = {...}
dispatchersInit ==
    [n \in {nameRead, nameOpen, nameStart} |->
        IF n = nameRead THEN "unpackSyscall<Read>"
        ELSE IF n = nameOpen THEN "unpackSyscall<Open>"
        ELSE "unpack<Start>"]

\* a lookup that falls back to a registered callback on a miss
MapIndexDefault(disp, name) ==
    IF name \in DOMAIN disp
    THEN [cb |-> disp[name], map |-> disp]
    ELSE [cb |-> "unpack<Start>",
          map |-> [n \in DOMAIN disp \cup {name} |->
                      IF n = name THEN "unpack<Start>" ELSE disp[n]]]

\* dispatchers[name]: std::map::operator[] inserts a value-initialized
\* (null) Callback under a key that is not in the map, and returns it
MapIndex(disp, name) ==
    IF name \in DOMAIN disp
    THEN [cb |-> disp[name], map |-> disp]
    ELSE [cb |-> "nullptr",
          map |-> [n \in DOMAIN disp \cup {name} |->
                      IF n = name THEN "nullptr" ELSE disp[n]]]

----------------------------------------------------------------------------
(* void unpack(const absl::string_view buf) *)

\* The byte at index k (0-based) of the memory buf.data() points to.  The
\* view holds Len(buf) bytes of the 300 KiB array pollLoop reads into; the
\* array is not initialized, so a byte past the view is whatever mem holds.
ByteAt(buf, mem, k) == IF k < Len(buf) THEN buf[k + 1] ELSE mem[k + 1]

\* size_t payload_size = message_size - 4 - hdr->header_size;
\* computed in uint32_t (message_size is uint32_t, the other operands
\* promote to int and convert), then widened to size_t
PayloadSize(message_size, header_size) ==
    U32Sub(U32Sub(message_size, 4), header_size)

\* a substr that starts one byte late
SubstrLate(buf, pos) == SubSeq(buf, pos + 2, Len(buf))

\* buf.substr(pos): the bytes of buf from index pos (0-based) to its end
Substr(buf, pos) == SubSeq(buf, pos + 1, Len(buf))

\* the result of unpack() before anything was decided
UnpackBase(buf, disp) ==
    [len |-> Len(buf),
     message_size |-> U32(0, 0),
     header_size |-> 0,
     payload_size |-> U32(0, 0),
     maxIdx |-> 3,              \* highest index of buf.data() that was read
     log |-> "none",            \* the printf of an early return
     exit |-> "none",           \* what ended the process, if anything
     parsed |-> FALSE,          \* ParseFromArray was called
     envelope |-> <<>>,         \* the bytes handed to ParseFromArray
     url |-> <<>>,
     name |-> <<>>,
     cb |-> "none",             \* the callback invoked, "none" if none was
     arg |-> AnyDefault,        \* the Any it was invoked with
     printed |-> <<>>,
     map |-> disp]              \* dispatchers afterwards

\* lines 103-121: parse the envelope and dispatch on the type name
UnpackProto(r, proto, disp) ==
    LET any == ParseFromArray(proto)
        r1 == [r EXCEPT !.parsed = TRUE, !.envelope = proto]
    IN IF ~any.ok THEN [r1 EXCEPT !.exit = "invalid proto message"]
       ELSE LET url == any.type_url
            IN IF Len(url) <= prefixLen
               THEN [r1 EXCEPT !.url = url, !.log = "Invalid URL"]
               ELSE LET name == Substr(url, prefixLen)
                        ix == MapIndex(disp, name)
                        r2 == [r1 EXCEPT !.url = url, !.name = name, !.map = ix.map]
                    IN IF ix.cb = "nullptr"
                       THEN [r2 EXCEPT !.log = "No callback registered"]
                       ELSE LET c == Call(ix.cb, any)
                            IN [r2 EXCEPT !.cb = ix.cb, !.arg = any,
                                          !.exit = c.exit, !.printed = c.printed]

\* unpack(buf), with dispatchers = disp.  mem is the content of the read
\* array past the view; hardened says whether string_view::operator[]
\* checks its index (ABSL_HARDENING_ASSERT) and aborts.
unpack(buf, mem, hardened, disp) ==
    LET message_size == U32OfBytes(ByteAt(buf, mem, 0), ByteAt(buf, mem, 1),
                                   ByteAt(buf, mem, 2), ByteAt(buf, mem, 3))
        r0 == [UnpackBase(buf, disp) EXCEPT !.message_size = message_size]
    IN IF U32Gt(message_size, U32OfNat(maxEventSize))
       THEN [r0 EXCEPT !.log = "Invalid header size"]
       ELSE IF hardened /\ Len(buf) <= 4
       THEN [r0 EXCEPT !.exit = "hardening assert"]
       ELSE
         LET header_size == ByteAt(buf, mem, 4) + 256 * ByteAt(buf, mem, 5)
             payload_size == PayloadSize(message_size, header_size)
             r1 == [r0 EXCEPT !.header_size = header_size,
                              !.payload_size = payload_size, !.maxIdx = 5]
         IN IF U32IsZero(payload_size)
            THEN [r1 EXCEPT !.log = "Header size is larger than message"]
            ELSE IF 4 + header_size > Len(buf)
            THEN [r1 EXCEPT !.exit = "std::out_of_range"]
            ELSE LET proto == Substr(buf, 4 + header_size)
                 IN IF U32Gt(payload_size, U32OfNat(Len(proto)))
                    THEN [r1 EXCEPT !.log = "Message was truncated"]
                    ELSE UnpackProto(r1, proto, disp)

----------------------------------------------------------------------------
(* What the peers put on the wire *)

LE16(n) == <<n % 256, (n \div 256) % 256>>
LE32(n) == <<n % 256, (n \div 256) % 256, (n \div 65536) % 256,
             (n \div 16777216) % 256>>

\* a frame: total_size, then struct header {header_size, dropped_count},
\* then pad (header bytes past the struct) and body
Frame(total_size, header_size, dropped_count, pad, body) ==
    LE32(total_size) \o LE16(header_size) \o LE32(dropped_count) \o pad \o body

\* a serialized google.protobuf.Any: type_url is field 1, value is field 2
AnyBytes(type_url, value) ==
    <<10, Len(type_url)>> \o type_url \o <<18, Len(value)>> \o value

\* the frame a producer sends for one event: header_size = 6,
\* dropped_count = 0, total_size equal to the length of the message
EventFrame(type_url, value) ==
    LET any == AnyBytes(type_url, value)
    IN Frame(10 + Len(any), 6, 0, <<>>, any)

\* "unknown.Type"
nameUnknown == <<117, 110, 107, 110, 111, 119, 110, 46, 84, 121, 112, 101>>
\* "short/url"
urlShort == <<115, 104, 111, 114, 116, 47, 117, 114, 108>>
\* twenty 'x': as long as the prefix, and not the prefix
notPrefix == [k \in 1..prefixLen |-> 120]

RegisteredNames == {nameRead, nameOpen, nameStart}
RegisteredUrls == {typePrefix \o n : n \in RegisteredNames}
UnknownUrls == {typePrefix \o nameUnknown, notPrefix \o nameUnknown}
ShortUrls == {<<>>, urlShort, typePrefix}
Urls == RegisteredUrls \cup UnknownUrls \cup ShortUrls
          \cup {notPrefix \o nameRead}

\* payloads: empty, one varint field, one string field, and two that are
\* not wire format (a tag without its value, a length past the end)
GoodPayloads == {<<>>, <<8, 1>>, <<10, 1, 65>>}
BadPayloads == {<<8>>, <<10, 5, 65>>}
Payloads == GoodPayloads \cup BadPayloads


\* well-formed frames, one per type_url and payload
EventFrames == {EventFrame(u, v) : u \in Urls, v \in Payloads}

\* bytes that follow a frame in the same message: a zero byte, an empty
\* field 2, a field 2 holding one byte, and a whole second frame
Tails == {<<0>>, <<18, 0>>, <<18, 1, 66>>,
          EventFrame(typePrefix \o nameOpen, <<>>)}

\* messages longer than their total_size
TrailingFrames ==
    {EventFrame(u, v) \o t : u \in RegisteredUrls \cup {typePrefix \o nameUnknown},
                             v \in {<<>>, <<8, 1>>}, t \in Tails}

\* frames whose header is longer than struct header (header_size = 8)
PaddedFrames ==
    {Frame(12 + Len(AnyBytes(u, v)), 8, 0, <<0, 0>>, AnyBytes(u, v)) :
        u \in RegisteredUrls, v \in GoodPayloads}

\* frames that announce more bytes than the message holds
ShortFrames ==
    {Frame(10 + Len(AnyBytes(u, <<8, 1>>)) + k, 6, 0, <<>>, AnyBytes(u, <<8, 1>>)) :
        u \in RegisteredUrls, k \in {1, 5}}

\* the first n bytes of a well-formed frame, n = 4..12
CutFrames ==
    {SubSeq(EventFrame(typePrefix \o nameStart, <<8, 1>>), 1, n) : n \in 4..12}

\* every total_size / header_size pairing around the payload_size = 0 edge,
\* over bodies of 0, 2 and 4 bytes
EdgeFrames ==
    {Frame(t, h, 0, <<>>, body) :
        t \in {0, 3, 4, 9, 10, 11, 12, 14},
        h \in {0, 5, 6, 7, 8, 10, 20, 65535},
        body \in {<<>>, <<0, 0>>, <<8, 1, 8, 1>>}}

\* total_size at and above the limit
BigFrames ==
    {LE32(t) \o rest : t \in {maxEventSize, maxEventSize + 1, 16777216},
                       rest \in {<<>>, <<6, 0>>, <<6, 0, 0, 0, 0, 0, 8, 1>>}}
      \cup {<<255, 255, 255, 255>>, <<0, 0, 0, 128, 6, 0, 0, 0, 0, 0>>}

\* every message of one to three bytes over three byte values
TinyBytes == {0, 1, 255}
TinyFrames ==
    UNION {[1..n -> TinyBytes] : n \in 1..3}

Frames == EventFrames \cup TrailingFrames \cup PaddedFrames \cup ShortFrames
            \cup CutFrames \cup EdgeFrames \cup BigFrames \cup TinyFrames

\* what the read array may hold past the bytes read (its first six bytes):
\* zeros, the start of a well-formed frame, of an oversized one, and of
\* frames with payload_size zero and wrapped
StaleMems == {<<0, 0, 0, 0, 0, 0>>, <<55, 0, 0, 0, 6, 0>>,
              <<255, 255, 255, 255, 255, 255>>, <<10, 0, 0, 0, 6, 0>>,
              <<10, 0, 0, 0, 8, 0>>}

----------------------------------------------------------------------------
(* The kernel's side: connections, descriptors, readiness *)

NoConn == [st |-> "none", fd |-> 0, queue |-> <<>>, peer |-> "none"]

\* the descriptors the process holds for accepted connections
OpenFds == {conns[c].fd : c \in {d \in ConnIds : conns[d].st = "open"}}

FdIsOpen(f) == f \in OpenFds

\* the connection descriptor f refers to (f is open)
ConnOfFd(f) == CHOOSE c \in ConnIds : conns[c].st = "open" /\ conns[c].fd = f

\* the lowest descriptor that is free
LowestFree == CHOOSE f \in Fds \ OpenFds : \A g \in Fds \ OpenFds : f <= g

\* What epoll reports for a connection registered with EPOLLIN: EPOLLIN when
\* a message is queued or the peer has shut down its sending side, EPOLLHUP
\* (always reported) when the peer has closed.  EPOLLRDHUP is not asked for,
\* so never reported.  EPOLLERR only makes pollLoop print, and is left out.
EventsOf(cn) ==
    (IF cn.queue # <<>> \/ cn.peer \in {"shutwr", "closed"} THEN {"EPOLLIN"} ELSE {})
    \cup (IF cn.peer = "closed" THEN {"EPOLLHUP"} ELSE {})

\* the registered descriptors epoll_wait would report now
ReadyFds == {f \in registered : FdIsOpen(f) /\ EventsOf(conns[ConnOfFd(f)]) # {}}

\* the orders in which epoll_wait may return the events of a set of descriptors
Orders(S) ==
    {q \in [1..Cardinality(S) -> S] : \A a, b \in 1..Cardinality(S) : q[a] = q[b] => a = b}

Running == exitMsg = "none"

\* an exit that stops only the calling thread's loop and closes nothing
ExitKeepsOpen(msg) ==
    /\ exitMsg' = msg
    /\ mainPc' = mainPc
    /\ pollPc' = "exited"
    /\ UNCHANGED <<backlog, conns, registered, client, evts, evtIdx>>

\* The process ends (err(1, msg), an uncaught exception, abort()): both
\* threads stop and the kernel closes every descriptor.  Its memory is gone;
\* dispatchers and last are left as they were, as the record of the run.
Gone == [NoConn EXCEPT !.st = "gone"]
Exit(msg) ==
    /\ exitMsg' = msg
    /\ mainPc' = "exited"
    /\ pollPc' = "exited"
    /\ backlog' = <<>>
    /\ conns' = [c \in ConnIds |-> IF conns[c].st = "none" THEN NoConn ELSE Gone]
    /\ registered' = {}
    /\ client' = 0
    /\ evts' = <<>>
    /\ evtIdx' = 0


\* the socket is listening: listen() has returned 0
Listening == mainPc \in {"epoll_create", "startPollThread", "accept", "epoll_ctl"}

\* the messages peers send in the model of the whole server: a decodable
\* event, an event whose payload does not decode, an unregistered type,
\* frames with payload_size zero and with a header reaching past the end of
\* the message, and a frame whose envelope is not wire format (a zero tag)
SysFrames ==
    {EventFrame(typePrefix \o nameRead, <<8, 1>>),
     EventFrame(typePrefix \o nameStart, <<8>>),
     EventFrame(typePrefix \o nameUnknown, <<>>),
     Frame(10, 6, 0, <<>>, <<>>),
     Frame(10, 20, 0, <<>>, <<>>),
     Frame(12, 6, 0, <<>>, <<0, 0>>)}

PeerConnect(c) ==
    /\ Running /\ Listening
    /\ conns[c].st = "none"
    /\ \A d \in ConnIds : d < c => conns[d].st # "none"
    /\ Len(backlog) < listenBacklog
    /\ conns' = [conns EXCEPT ![c] = [NoConn EXCEPT !.st = "backlog", !.peer = "open"]]
    /\ backlog' = Append(backlog, c)
    /\ UNCHANGED <<mainPc, pollPc, exitMsg, sockFile, registered, client, evts,
                   evtIdx, pollErrno, acceptErrno, dispatchers, sent, last>>

\* the peer sends one message (SOCK_SEQPACKET keeps message boundaries)
PeerSend(c, f) ==
    /\ Running
    /\ conns[c].st \in {"backlog", "open"}
    /\ conns[c].peer = "open"
    /\ sent < MaxMsgs
    /\ sent' = sent + 1
    /\ conns' = [conns EXCEPT ![c].queue = Append(@, f)]
    /\ UNCHANGED <<mainPc, pollPc, exitMsg, sockFile, backlog, registered, client,
                   evts, evtIdx, pollErrno, acceptErrno, dispatchers, last>>

\* the peer calls shutdown(SHUT_WR)
PeerShutdown(c) ==
    /\ Running
    /\ conns[c].st \in {"backlog", "open"}
    /\ conns[c].peer = "open"
    /\ conns' = [conns EXCEPT ![c].peer = "shutwr"]
    /\ UNCHANGED <<mainPc, pollPc, exitMsg, sockFile, backlog, registered, client,
                   evts, evtIdx, pollErrno, acceptErrno, dispatchers, sent, last>>

\* the peer closes its end
PeerClose(c) ==
    /\ Running
    /\ conns[c].st \in {"backlog", "open"}
    /\ conns[c].peer \in {"open", "shutwr"}
    /\ conns' = [conns EXCEPT ![c].peer = "closed"]
    /\ UNCHANGED <<mainPc, pollPc, exitMsg, sockFile, backlog, registered, client,
                   evts, evtIdx, pollErrno, acceptErrno, dispatchers, sent, last>>

----------------------------------------------------------------------------
(* extern "C" int main(int argc, char** argv) *)

\* a start-up call whose failure is not looked at: main goes on either way
MainCallUnchecked(pc, ok, next, msg) ==
    /\ Running
    /\ mainPc = pc
    /\ mainPc' = next
    /\ ~ok => pollPc' = pollPc
    /\ UNCHANGED <<exitMsg, backlog, conns, registered, client, evts, evtIdx>>
    /\ UNCHANGED <<pollErrno, acceptErrno, dispatchers, sent, last>>

\* a start-up call of main: on success go to `next`, on failure err(1, msg)
MainCall(pc, ok, next, msg) ==
    /\ Running
    /\ mainPc = pc
    /\ IF ok
       THEN /\ mainPc' = next
            /\ UNCHANGED <<exitMsg, backlog, conns, registered, client, evts, evtIdx>>
       ELSE Exit(msg)
    /\ UNCHANGED <<pollErrno, acceptErrno, dispatchers, sent, last>>

\* unlink(path.c_str()); its result is not looked at
MainUnlink ==
    /\ Running
    /\ mainPc = "unlink"
    /\ \E removed \in BOOLEAN : sockFile' = (sockFile /\ ~removed)
    /\ mainPc' = "socket"
    /\ UNCHANGED <<pollPc, exitMsg, backlog, conns, registered, client, evts,
                   evtIdx, pollErrno, acceptErrno, dispatchers, sent, last>>

\* socket(AF_UNIX, SOCK_SEQPACKET, 0)
MainSocket ==
    /\ \E ok \in BOOLEAN :
         /\ MainCall("socket", ok, "bind", "socket")
         /\ ok => UNCHANGED pollPc
    /\ UNCHANGED sockFile

\* bind(): fails when a file is in the way (EADDRINUSE), or for another reason
MainBind ==
    \E ok \in BOOLEAN :
         /\ ok => ~sockFile
         /\ MainCall("bind", ok, "listen", "bind")
         /\ ok => UNCHANGED pollPc
         /\ sockFile' = (sockFile \/ ok)

\* listen(sock, 5)
MainListen ==
    /\ \E ok \in BOOLEAN :
         /\ MainCall("listen", ok, "epoll_create", "listen")
         /\ ok => UNCHANGED pollPc
    /\ UNCHANGED sockFile

\* epoll_create(1)
MainEpollCreate ==
    /\ \E ok \in BOOLEAN :
         /\ MainCall("epoll_create", ok, "startPollThread", "epoll_create")
         /\ ok => UNCHANGED pollPc
    /\ UNCHANGED sockFile

\* void startPollThread(int poll_fd): pthread_create(pollLoop), pthread_detach
startPollThread ==
    /\ \E ok \in BOOLEAN :
         /\ MainCall("startPollThread", ok, "accept", "pthread_create")
         /\ ok => pollPc' = "wait"
    /\ UNCHANGED sockFile

\* accept(sock, nullptr, nullptr) returns the oldest pending connection on
\* the lowest free descriptor
MainAcceptOk ==
    /\ Running
    /\ mainPc = "accept"
    /\ backlog # <<>>
    /\ Fds \ OpenFds # {}
    /\ LET c == Head(backlog)
           f == LowestFree
       IN /\ conns' = [conns EXCEPT ![c].st = "open", ![c].fd = f]
          /\ client' = f
    /\ backlog' = Tail(backlog)
    /\ acceptErrno' = "none"
    /\ mainPc' = "epoll_ctl"
    /\ UNCHANGED <<pollPc, exitMsg, sockFile, registered, evts, evtIdx, pollErrno,
                   dispatchers, sent, last>>

\* accept() fails: with EINTR the loop continues, anything else is err(1)
MainAcceptFail(errno) ==
    /\ Running
    /\ mainPc = "accept"
    /\ acceptErrno' = errno
    /\ IF errno = "EINTR"
       THEN UNCHANGED <<mainPc, pollPc, exitMsg, backlog, conns, registered,
                        client, evts, evtIdx>>
       ELSE Exit("accept")
    /\ UNCHANGED <<sockFile, pollErrno, dispatchers, sent, last>>

\* epoll_ctl(epoll_fd, EPOLL_CTL_ADD, client, &evt) with evt.events = EPOLLIN
MainEpollCtl ==
    /\ Running
    /\ mainPc = "epoll_ctl"
    /\ \E ok \in BOOLEAN :
         /\ ok => (FdIsOpen(client) /\ client \notin registered)
         /\ IF ok
            THEN /\ registered' = registered \cup {client}
                 /\ mainPc' = "accept"
                 /\ UNCHANGED <<pollPc, exitMsg, backlog, conns, client, evts, evtIdx>>
            ELSE Exit("epoll_ctl(ADD)")
    /\ UNCHANGED <<sockFile, pollErrno, acceptErrno, dispatchers, sent, last>>

----------------------------------------------------------------------------
(* void* pollLoop(void* ptr) *)

\* `last` before any event was handled.  bytes is what read() returned,
\* -2 when the event had no EPOLLIN and nothing was read.
NoLast ==
    [conn |-> 0, bytes |-> -2, buf |-> <<>>,
     res |-> UnpackBase(<<>>, dispatchersInit), closed |-> FALSE, done |-> TRUE]

\* epoll_wait(poll_fd, evts, 64, -1) returns the ready descriptors.  An
\* event carries data.fd and events; conn, which the program does not have,
\* records the connection the kernel reported the event for.
PollWaitOk ==
    /\ Running
    /\ pollPc = "wait"
    /\ ReadyFds # {}
    /\ \E q \in Orders(ReadyFds) :
         evts' = [k \in 1..Cardinality(ReadyFds) |->
                     [fd |-> q[k], events |-> EventsOf(conns[ConnOfFd(q[k])]),
                      conn |-> ConnOfFd(q[k])]]
    /\ evtIdx' = 1
    /\ pollErrno' = "none"
    /\ pollPc' = "in"
    /\ UNCHANGED <<mainPc, exitMsg, sockFile, backlog, conns, registered, client,
                   acceptErrno, dispatchers, sent, last>>

\* an epoll_wait() failure handled without the EINTR test: always err(1)
PollWaitFailFatal(errno) ==
    /\ Running
    /\ pollPc = "wait"
    /\ pollErrno' = errno
    /\ Exit("epoll_wait")
    /\ UNCHANGED <<sockFile, acceptErrno, dispatchers, sent, last>>

\* epoll_wait() fails: with EINTR the loop continues, anything else is err(1)
PollWaitFail(errno) ==
    /\ Running
    /\ pollPc = "wait"
    /\ pollErrno' = errno
    /\ IF errno = "EINTR"
       THEN UNCHANGED <<mainPc, pollPc, exitMsg, backlog, conns, registered,
                        client, evts, evtIdx>>
       ELSE Exit("epoll_wait")
    /\ UNCHANGED <<sockFile, acceptErrno, dispatchers, sent, last>>

\* the bytes read() puts into the array and pollLoop hands to unpack():
\* the oldest queued message
ReadBytes(cn) == Head(cn.queue)

\* what the array may hold past a view of n bytes, as far as unpack looks
MemsFor(n) == IF n < 6 THEN StaleMems ELSE {<<0, 0, 0, 0, 0, 0>>}

\* lines 137-146: if (evts[i].events & EPOLLIN) { read(); unpack(); }
\* readFails: the kernel fails the read (it also does on a closed descriptor)
PollIn(readFails) ==
    /\ Running
    /\ pollPc = "in"
    /\ LET e == evts[evtIdx]
           c == IF FdIsOpen(e.fd) THEN ConnOfFd(e.fd) ELSE 0
           l0 == [NoLast EXCEPT !.conn = c, !.done = FALSE,
                                !.res.map = dispatchers]
           Continue == /\ pollPc' = "hup"
                       /\ UNCHANGED <<mainPc, exitMsg, backlog, registered,
                                      client, evts, evtIdx>>
       IN IF "EPOLLIN" \notin e.events
          THEN /\ ~readFails
               /\ last' = l0
               /\ Continue
               /\ UNCHANGED <<conns, dispatchers>>
          ELSE IF c = 0 \/ readFails
          THEN \* read() returns -1
               /\ last' = [l0 EXCEPT !.bytes = -1]
               /\ Exit("read")
               /\ UNCHANGED dispatchers
          ELSE IF conns[c].queue = <<>>
          THEN \* end of file; with the peer still sending, read() blocks
               /\ conns[c].peer \in {"shutwr", "closed"}
               /\ last' = [l0 EXCEPT !.bytes = 0]
               /\ Continue
               /\ UNCHANGED <<conns, dispatchers>>
          ELSE LET buf == ReadBytes(conns[c])
               IN IF Len(buf) = 0
                  THEN /\ last' = [l0 EXCEPT !.bytes = 0]
                       /\ conns' = [conns EXCEPT ![c].queue = Tail(@)]
                       /\ Continue
                       /\ UNCHANGED dispatchers
                  ELSE \E mem \in MemsFor(Len(buf)),
                          hardened \in (IF Len(buf) <= 4 THEN BOOLEAN ELSE {FALSE}) :
                         LET r == unpack(buf, mem, hardened, dispatchers)
                         IN /\ last' = [l0 EXCEPT !.bytes = Len(buf),
                                                  !.buf = buf, !.res = r]
                            /\ dispatchers' = r.map
                            /\ IF r.exit = "none"
                               THEN /\ conns' = [conns EXCEPT ![c].queue = Tail(@)]
                                    /\ Continue
                               ELSE Exit(r.exit)
    /\ UNCHANGED <<sockFile, pollErrno, acceptErrno, sent>>

\* a close that also empties the epoll interest list
CloseFdDropAll(f) ==
    IF FdIsOpen(f)
    THEN /\ conns' = [conns EXCEPT ![ConnOfFd(f)].st = "closed",
                                   ![ConnOfFd(f)].queue = <<>>]
         /\ registered' = {}
    ELSE UNCHANGED <<conns, registered>>

\* close(client): the descriptor is released and, being the only reference
\* to the connection, leaves the epoll interest list
CloseFd(f) ==
    IF FdIsOpen(f)
    THEN /\ conns' = [conns EXCEPT ![ConnOfFd(f)].st = "closed",
                                   ![ConnOfFd(f)].queue = <<>>]
         /\ registered' = registered \ {f}
    ELSE UNCHANGED <<conns, registered>>

\* lines 147-154: close on EPOLLRDHUP | EPOLLHUP (EPOLLERR only prints)
PollHup ==
    /\ Running
    /\ pollPc = "hup"
    /\ LET e == evts[evtIdx]
           hup == e.events \cap {"EPOLLRDHUP", "EPOLLHUP"} # {}
       IN /\ IF hup THEN CloseFd(e.fd) ELSE UNCHANGED <<conns, registered>>
          /\ last' = [last EXCEPT !.closed = hup, !.done = TRUE]
    /\ pollPc' = "next"
    /\ UNCHANGED <<mainPc, exitMsg, sockFile, backlog, client, evts, evtIdx,
                   pollErrno, acceptErrno, dispatchers, sent>>

\* an end of the loop body that does not advance i: the same event is
\* handled again
PollNextRepeat ==
    /\ Running
    /\ pollPc = "next"
    /\ last' = NoLast
    /\ pollPc' = "in"
    /\ UNCHANGED <<mainPc, exitMsg, sockFile, backlog, conns, registered, client,
                   evts, evtIdx, pollErrno, acceptErrno, dispatchers, sent>>

\* the end of the loop body: client, buf and bytes go out of scope, ++i,
\* and back to epoll_wait after the last event
PollNext ==
    /\ Running
    /\ pollPc = "next"
    /\ last' = NoLast
    /\ IF evtIdx < Len(evts)
       THEN evtIdx' = evtIdx + 1 /\ pollPc' = "in" /\ UNCHANGED evts
       ELSE evtIdx' = 0 /\ pollPc' = "wait" /\ evts' = <<>>
    /\ UNCHANGED <<mainPc, exitMsg, sockFile, backlog, conns, registered, client,
                   pollErrno, acceptErrno, dispatchers, sent>>

----------------------------------------------------------------------------
(* The specification of the whole server *)

Init ==
    /\ mainPc = "unlink"
    /\ pollPc = "off"
    /\ exitMsg = "none"
    /\ sockFile \in BOOLEAN
    /\ backlog = <<>>
    /\ conns = [c \in ConnIds |-> NoConn]
    /\ registered = {}
    /\ client = 0
    /\ evts = <<>>
    /\ evtIdx = 0
    /\ pollErrno = "none"
    /\ acceptErrno = "none"
    /\ dispatchers = dispatchersInit
    /\ sent = 0
    /\ last = NoLast

Next ==
    \/ MainUnlink
    \/ MainSocket
    \/ MainBind
    \/ MainListen
    \/ MainEpollCreate
    \/ startPollThread
    \/ MainAcceptOk
    \/ \E errno \in {"EINTR", "EMFILE"} : MainAcceptFail(errno)
    \/ MainEpollCtl
    \/ PollWaitOk
    \/ \E errno \in {"EINTR", "EBADF"} : PollWaitFail(errno)
    \/ \E readFails \in BOOLEAN : PollIn(readFails)
    \/ PollHup
    \/ PollNext
    \/ \E c \in ConnIds : PeerConnect(c)
    \/ \E c \in ConnIds, f \in SysFrames : PeerSend(c, f)
    \/ \E c \in ConnIds : PeerShutdown(c)
    \/ \E c \in ConnIds : PeerClose(c)

Spec == Init /\ [][Next]_vars

\* The server without fatal errors of its environment: every call of main
\* and every read may still be interrupted or succeed, peers send a
\* decodable event and an event of an unregistered type, and both threads
\* keep running: main is a thread of its own and pollLoop is a detached
\* pthread, so a step either of them can take is taken.
LiveFrames ==
    {EventFrame(typePrefix \o nameRead, <<8, 1>>),
     EventFrame(typePrefix \o nameUnknown, <<>>)}

NextLive ==
    \/ MainUnlink
    \/ MainSocket
    \/ MainBind
    \/ MainListen
    \/ MainEpollCreate
    \/ startPollThread
    \/ MainAcceptOk
    \/ MainAcceptFail("EINTR")
    \/ MainEpollCtl
    \/ PollWaitOk
    \/ PollWaitFail("EINTR")
    \/ PollIn(FALSE)
    \/ PollHup
    \/ PollNext
    \/ \E c \in ConnIds : PeerConnect(c)
    \/ \E c \in ConnIds, f \in LiveFrames : PeerSend(c, f)
    \/ \E c \in ConnIds : PeerShutdown(c)
    \/ \E c \in ConnIds : PeerClose(c)

\* pollLoop, at the read of the event it is handling, can take its step:
\* it cannot only while read() blocks, on an open descriptor with nothing
\* queued and a peer that may still send
PollInEnabled ==
    /\ Running
    /\ pollPc = "in"
    /\ LET e == evts[evtIdx]
       IN ("EPOLLIN" \in e.events /\ FdIsOpen(e.fd)
              /\ conns[ConnOfFd(e.fd)].queue = <<>>)
            => conns[ConnOfFd(e.fd)].peer \in {"shutwr", "closed"}

\* Weak fairness of every step of the two loops.  For the read step it is
\* written out, WF_vars(PollIn(FALSE)) with the enabling condition as a state
\* predicate: every step that leaves pollPc = "in" is a PollIn step.
Fairness ==
    /\ WF_vars(MainAcceptOk)
    /\ WF_vars(MainEpollCtl)
    /\ WF_vars(PollWaitOk)
    /\ ([]<>(~PollInEnabled) \/ []<><<pollPc = "in" /\ pollPc' # "in">>_vars)
    /\ WF_vars(PollHup)
    /\ WF_vars(PollNext)

SpecLive == Init /\ [][NextLive]_vars /\ Fairness

----------------------------------------------------------------------------
(* The specification of pollLoop reading one message: unpack() on every    *)
(* message of Frames.  It starts where the server is once it has accepted  *)
(* and registered a connection and the peer has sent one message, with     *)
(* dispatchers as it is at start-up or after an earlier lookup of an       *)
(* unregistered name.                                                      *)

InitUnpack ==
    /\ mainPc = "accept"
    /\ pollPc = "wait"
    /\ exitMsg = "none"
    /\ sockFile = TRUE
    /\ backlog = <<>>
    /\ \E f \in Frames :
         conns = [c \in ConnIds |->
                    IF c = 1
                    THEN [st |-> "open", fd |-> 1, queue |-> <<f>>, peer |-> "open"]
                    ELSE NoConn]
    /\ registered = {1}
    /\ client = 1
    /\ evts = <<>>
    /\ evtIdx = 0
    /\ pollErrno = "none"
    /\ acceptErrno = "none"
    /\ dispatchers \in {dispatchersInit, MapIndex(dispatchersInit, nameUnknown).map}
    /\ sent = 1
    /\ last = NoLast

NextUnpack ==
    \/ PollWaitOk
    \/ PollIn(FALSE)
    \/ PollHup
    \/ PollNext

SpecUnpack == InitUnpack /\ [][NextUnpack]_vars

----------------------------------------------------------------------------
(* Properties.  `last` holds the event pollLoop is handling: last.bytes > 0 *)
(* means read() returned last.buf and unpack() produced last.res.           *)

Unpacked == last.bytes > 0

\* unpack() ended on a data-plane error: a malformed frame (any early return
\* of the frame checks, the out_of_range of substr, the index check of
\* operator[]), a type_url not longer than the prefix, an unregistered name,
\* or a callback that could not decode its payload
DataPlaneError(r) ==
    \/ r.log # "none"
    \/ r.exit \in {"std::out_of_range", "hardening assert", "UnpackTo()"}

\* C1: a data-plane error drops only the record: after unpack() returned on
\* one, the process is still running and the connection is still open.
C1_DataPlaneErrorKeepsRunning ==
    (Unpacked /\ ~last.done /\ DataPlaneError(last.res))
        => (exitMsg = "none" /\ last.conn # 0 /\ conns[last.conn].st = "open")

\* C2: on a message of 1, 2 or 3 bytes unpack() reports a truncated message,
\* calls no callback, and reads no byte at an index >= the message length.
C2_TinyBufferNotReadPastEnd ==
    (Unpacked /\ last.bytes \in 1..3)
        => /\ last.res.maxIdx < last.bytes
           /\ last.res.cb = "none"
           /\ last.res.exit = "none"
           /\ last.res.log = "Message was truncated"

\* C3: when total_size <= maxEventSize and 4 + header_size > total_size (the
\* header lying within the bytes read), unpack() rejects the frame as "Header
\* size is larger than message" and payload_size has not wrapped around.
C3_HeaderTooLargeRejected ==
    (/\ Unpacked
     /\ last.bytes >= 6
     /\ ~U32Gt(last.res.message_size, U32OfNat(maxEventSize))
     /\ U32Gt(U32OfNat(4 + last.res.header_size), last.res.message_size))
        => /\ last.res.log = "Header size is larger than message"
           /\ last.res.exit = "none"
           /\ ~U32Gt(last.res.payload_size, last.res.message_size)

\* C4: the bytes handed to ParseFromArray are exactly the payload_size bytes
\* that start at offset 4 + header_size.
C4_EnvelopeIsPayloadSizeBytes ==
    (Unpacked /\ last.res.parsed)
        => /\ U32OfNat(Len(last.res.envelope)) = last.res.payload_size
           /\ last.res.envelope =
                SubSeq(last.buf, 4 + last.res.header_size + 1,
                       4 + last.res.header_size + Len(last.res.envelope))

\* C5: dispatchers always equals the static table it was built from.
C5_RegistryImmutable == dispatchers = dispatchersInit

\* C6: once pollLoop has handled an event whose read() returned zero bytes,
\* or whose events held a hangup, the connection is closed and out of the
\* epoll set.
C6_ZeroReadOrHangupCloses ==
    (Running /\ last.done /\ last.conn # 0 /\ (last.bytes = 0 \/ last.closed))
        => /\ conns[last.conn].st = "closed"
           /\ conns[last.conn].fd \notin ReadyFds


\* what unpack() does with buf in a process that has handled nothing else
Alone(buf) == unpack(buf, <<0, 0, 0, 0, 0, 0>>, FALSE, dispatchersInit)

SameDispatch(r, q) ==
    /\ r.cb = q.cb
    /\ r.arg = q.arg
    /\ r.envelope = q.envelope
    /\ r.log = q.log
    /\ r.exit = q.exit

\* the message of event l (a value of `last`) was dispatched as it would be
\* alone; messages under six bytes leave unpack() reading the array past
\* them, and are left out
DispatchedAsAlone(l) ==
    l.bytes >= 6 => SameDispatch(l.res, Alone(l.buf))

\* C7: a step that closes one connection leaves every other connection as it
\* was, open ones open and registered ones registered, and every message of
\* at least six bytes read from any connection is dispatched to the callback,
\* with the Any, that unpack() gives it in a process that saw nothing else.
C7_ConnectionsIndependent ==
    [][/\ \A a \in ConnIds :
            (conns[a].st = "open" /\ conns'[a].st = "closed")
                => \A b \in ConnIds \ {a} :
                      /\ conns'[b] = conns[b]
                      /\ conns[b].st = "open"
                            => (conns[b].fd \in registered
                                   <=> conns[b].fd \in registered')
       /\ DispatchedAsAlone(last')]_vars

\* C7 happens: connection 1 is closed, connection 2 is open and registered,
\* and a message read from connection 2 has reached a callback.
C7_Witness ==
    /\ conns[1].st = "closed"
    /\ conns[2].st = "open"
    /\ conns[2].fd \in registered
    /\ last.conn = 2
    /\ last.res.cb = "unpackSyscall<Read>"
    /\ exitMsg = "none"

\* C8: a wait that fails with EINTR is retried: the thread is back at the
\* wait, the process runs, and the ready descriptors (the pending
\* connections, for accept) are what they were; any other failure of
\* epoll_wait or accept ends the process.
C8_InterruptedWaitRetried ==
    [][/\ (pollErrno' = "EINTR" /\ pollErrno # "EINTR")
            => /\ exitMsg' = "none"
               /\ pollPc' = "wait"
               /\ registered' = registered
               /\ ReadyFds' = ReadyFds
       /\ (acceptErrno' = "EINTR" /\ acceptErrno # "EINTR")
            => /\ exitMsg' = "none"
               /\ mainPc' = "accept"
               /\ backlog' = backlog
       /\ (pollErrno' # pollErrno /\ pollErrno' \notin {"none", "EINTR"})
            => exitMsg' = "epoll_wait"
       /\ (acceptErrno' # acceptErrno /\ acceptErrno' \notin {"none", "EINTR"})
            => exitMsg' = "accept"]_vars

\* C8 happens: both waits were interrupted while a descriptor was ready and
\* a connection was pending, and the process runs.
C8_Witness ==
    /\ pollErrno = "EINTR"
    /\ acceptErrno = "EINTR"
    /\ pollPc = "wait"
    /\ mainPc = "accept"
    /\ ReadyFds # {}
    /\ backlog # <<>>
    /\ exitMsg = "none"

\* C9: a frame built as EventFrame("<prefix>/N", P) for a registered name N
\* reaches the callback registered for N, with type_url and payload P as
\* they were put in, and nothing is reported as dropped.
C9_RoundTrip ==
    \A n \in RegisteredNames, v \in Payloads :
        (Unpacked /\ last.buf = EventFrame(typePrefix \o n, v))
            => /\ last.res.cb = dispatchersInit[n]
               /\ last.res.name = n
               /\ last.res.arg.type_url = typePrefix \o n
               /\ last.res.arg.value = v
               /\ last.res.log = "none"

\* C9 happens: a gvisor.container.Start event went through unpack<Start>.
C9_Witness ==
    /\ Unpacked
    /\ last.buf = EventFrame(typePrefix \o nameStart, <<8, 1>>)
    /\ last.res.cb = "unpack<Start>"
    /\ last.res.printed = nameStart
    /\ exitMsg = "none"

\* C10: a frame whose envelope parses and whose name (type_url past the
\* prefix length) is not in the static table is reported as "No callback
\* registered", calls no callback and leaves the process running.
C10_UnregisteredDropped ==
    (/\ Unpacked
     /\ last.res.parsed
     /\ last.res.exit # "invalid proto message"
     /\ Len(last.res.url) > prefixLen
     /\ Substr(last.res.url, prefixLen) \notin RegisteredNames)
        => /\ last.res.log = "No callback registered"
           /\ last.res.cb = "none"
           /\ last.res.exit = "none"
           /\ exitMsg = "none"

\* C10 happens: "unknown.Type" was looked up and missed.
C10_Witness ==
    /\ Unpacked
    /\ last.buf = EventFrame(typePrefix \o nameUnknown, <<8, 1>>)
    /\ last.res.name = nameUnknown
    /\ last.res.log = "No callback registered"

\* C11: a message of at least four bytes whose total_size is above
\* maxEventSize is reported as "Invalid header size" with no byte past the
\* first four read, nothing parsed, no callback called and the process
\* running; total_size = maxEventSize is not reported so.
C11_TooLargeRejectedFirst ==
    (Unpacked /\ last.bytes >= 4)
        => /\ U32Gt(last.res.message_size, U32OfNat(maxEventSize))
                => /\ last.res.log = "Invalid header size"
                   /\ last.res.maxIdx = 3
                   /\ ~last.res.parsed
                   /\ last.res.cb = "none"
                   /\ last.res.exit = "none"
                   /\ exitMsg = "none"
           /\ last.res.message_size = U32OfNat(maxEventSize)
                => last.res.log # "Invalid header size"

\* C11 happens: a twelve-byte message announcing maxEventSize + 1 bytes was
\* rejected.
C11_Witness ==
    /\ Unpacked
    /\ last.bytes = 12
    /\ last.res.message_size = U32OfNat(maxEventSize + 1)
    /\ last.res.log = "Invalid header size"

\* C12: an envelope that parses with a type_url of at most 20 bytes (the
\* length of "type.googleapis.com/") is reported as "Invalid URL": no
\* substring of the type_url is taken, nothing is looked up, no callback is
\* called and the process runs.
C12_ShortUrlRejected ==
    (/\ Unpacked
     /\ last.res.parsed
     /\ last.res.exit # "invalid proto message"
     /\ Len(last.res.url) <= Len(typePrefix))
        => /\ last.res.log = "Invalid URL"
           /\ last.res.name = <<>>
           /\ last.res.cb = "none"
           /\ last.res.exit = "none"
           /\ exitMsg = "none"

\* C12 happens: an envelope whose type_url is exactly the prefix was
\* rejected.
C12_Witness ==
    /\ Unpacked
    /\ last.res.parsed
    /\ last.res.url = typePrefix
    /\ last.res.log = "Invalid URL"

\* the process has terminated: both threads are gone and every descriptor
\* is closed
Terminated ==
    /\ mainPc = "exited"
    /\ pollPc = "exited"
    /\ \A c \in ConnIds : conns[c].st \in {"none", "gone"}
    /\ registered = {}
    /\ evts = <<>>

\* the steps main can take out of a start-up call or the registration:
\* on to the next call with the process running, or err(1) naming the call
MainCallFatal(pc, next, msg) ==
    (mainPc = pc /\ mainPc' # pc)
        => \/ mainPc' = next /\ exitMsg' = "none"
           \/ Terminated' /\ exitMsg' = msg
           \/ Terminated' /\ pollPc \notin {"off", "exited"}
                 /\ exitMsg' \in {"epoll_wait", "read", "invalid proto message",
                                  "UnpackTo()", "invalid name",
                                  "std::out_of_range", "hardening assert"}

\* C13: control-plane errors are fatal.  A read() that returned -1 and an
\* envelope that ParseFromArray refused have ended the process with
\* err(1, "read") and err(1, "invalid proto message"); socket, bind, listen,
\* epoll_create and epoll_ctl(ADD) either succeed or end it with err(1)
\* naming the call; and once the process has ended both threads are gone,
\* every descriptor is closed, and no step reads or dispatches anything.
C13_ControlPlaneErrorsFatal ==
    /\ [](last.bytes = -1 => exitMsg = "read")
    /\ [](last.res.exit = "invalid proto message"
            => exitMsg = "invalid proto message")
    /\ [](exitMsg # "none" => Terminated)
    /\ [][/\ MainCallFatal("socket", "bind", "socket")
          /\ MainCallFatal("bind", "listen", "bind")
          /\ MainCallFatal("listen", "epoll_create", "listen")
          /\ MainCallFatal("epoll_create", "startPollThread", "epoll_create")
          /\ MainCallFatal("epoll_ctl", "accept", "epoll_ctl(ADD)")
          /\ exitMsg # "none"
                => (last' = last /\ conns' = conns /\ dispatchers' = dispatchers)]_vars

\* C13 happens: ParseFromArray refused an envelope read from a registered
\* connection while a second connection was open, and the process ended.
C13_Witness ==
    /\ last.bytes > 0
    /\ last.res.parsed
    /\ last.res.exit = "invalid proto message"
    /\ exitMsg = "invalid proto message"
    /\ Terminated
    /\ \A c \in ConnIds : conns[c].st = "gone"

\* main is past bind(), which returned 0
Bound == mainPc \in {"listen", "epoll_create", "startPollThread", "accept", "epoll_ctl"}

\* a connection has been accepted, or pollLoop has been started
Serving ==
    \/ pollPc # "off"
    \/ \E c \in ConnIds : conns[c].st \in {"open", "closed", "gone"}
    \/ registered # {}

\* the statement of C14 read literally: whenever bind is about to be
\* attempted the socket path is gone, and nothing is accepted and no thread
\* started before bind and listen have succeeded.
C14_PathGoneWhenBinding ==
    /\ mainPc = "bind" => ~sockFile
    /\ (Running /\ Serving) => (Bound /\ Listening)

\* C14, amended: unlink() comes before bind but its result is not looked
\* at.  main reaches bind only through unlink and socket; bind succeeds only
\* when the path is gone, and with the path still there it ends the process
\* with err(1, "bind"); a failed listen ends it with err(1, "listen"); no
\* connection is accepted and pollLoop is not started unless bind and listen
\* have both returned 0; and a process that ended in bind or listen never
\* accepted anything.
C14_StartupOrdering ==
    /\ []((Running /\ Serving) => (Bound /\ Listening /\ sockFile))
    /\ [](Bound => sockFile)
    /\ [](exitMsg \in {"socket", "bind", "listen"}
            => (pollPc = "exited" /\ \A c \in ConnIds : conns[c].st = "none"))
    /\ [][/\ mainPc' = "socket" => mainPc \in {"unlink", "socket"}
          /\ mainPc' = "bind" => mainPc \in {"socket", "bind"}
          /\ mainPc' = "listen" => mainPc \in {"bind", "listen"}
          /\ (mainPc = "bind" /\ mainPc' = "listen") => ~sockFile
          /\ (mainPc = "bind" /\ sockFile /\ mainPc' # "bind")
                => (exitMsg' = "bind" /\ mainPc' = "exited")
          /\ (mainPc = "listen" /\ mainPc' \notin {"listen", "epoll_create"})
                => (exitMsg' = "listen" /\ mainPc' = "exited")
          /\ mainPc' = "accept"
                => mainPc \in {"startPollThread", "accept", "epoll_ctl"}]_vars

\* C14 happens: after a start-up that went through, pollLoop runs and a
\* connection has been accepted and registered.
C14_Witness ==
    /\ mainPc = "accept"
    /\ pollPc = "wait"
    /\ sockFile
    /\ conns[1].st = "open"
    /\ conns[1].fd \in registered
    /\ exitMsg = "none"

\* the bytes of buf from offset 4 + header_size on: how many there are
Available(r) ==
    IF r.len > 4 + r.header_size THEN r.len - (4 + r.header_size) ELSE 0

\* C15: a message holding its header, with total_size <= maxEventSize and
\* 4 + header_size <= total_size, in which fewer than payload_size bytes
\* follow offset 4 + header_size (the offset may lie past the end of the
\* message), is reported as "Message was truncated": nothing is parsed, no
\* callback is called and the process runs.
C15_TruncatedReported ==
    (/\ Unpacked
     /\ last.bytes >= 6
     /\ ~U32Gt(last.res.message_size, U32OfNat(maxEventSize))
     /\ ~U32Gt(U32OfNat(4 + last.res.header_size), last.res.message_size)
     /\ U32Gt(last.res.payload_size, U32OfNat(Available(last.res))))
        => /\ last.res.log = "Message was truncated"
           /\ ~last.res.parsed
           /\ last.res.cb = "none"
           /\ last.res.exit = "none"
           /\ exitMsg = "none"

\* C16: a message of 4 to 9 bytes with total_size <= maxEventSize is
\* reported as "Message was truncated" without header_size having been read
\* (no byte past the first four is looked at), no callback is called and the
\* process runs.
C16_ShortHeaderTruncated ==
    (/\ Unpacked
     /\ last.bytes \in 4..9
     /\ ~U32Gt(last.res.message_size, U32OfNat(maxEventSize)))
        => /\ last.res.log = "Message was truncated"
           /\ last.res.maxIdx = 3
           /\ last.res.cb = "none"
           /\ last.res.exit = "none"
           /\ exitMsg = "none"

\* C17: what pollLoop does with a read of one or more bytes is one run of
\* unpack() on the bytes read and on nothing else: whatever the read array
\* held before the read, the outcome (the early return, the envelope parsed,
\* the one callback called and its argument, the exit) is the one unpack()
\* gives for these bytes alone.
C17_OneUnpackOfBytesRead ==
    Unpacked =>
        \A m \in StaleMems :
            SameDispatch(last.res, unpack(last.buf, m, FALSE, dispatchersInit))

\* every accepted connection is registered with the epoll set, unless the
\* process ends first
AcceptedGetsRegistered ==
    \A c \in ConnIds :
        (conns[c].st = "open" /\ conns[c].fd \notin registered)
            ~> \/ conns[c].st = "open" /\ conns[c].fd \in registered
               \/ exitMsg # "none"

\* every message queued on an accepted connection is read and handed to
\* unpack(), unless the process ends first
QueuedGetsRead ==
    \A c \in ConnIds, k \in 1..MaxMsgs, f \in LiveFrames :
        (conns[c].st = "open" /\ Len(conns[c].queue) >= k /\ conns[c].queue[k] = f)
            ~> \/ Unpacked /\ last.conn = c /\ last.buf = f
               \/ exitMsg # "none"

\* C18: with both threads scheduled fairly and the process not ending, every
\* accepted connection is eventually registered, and every message a peer
\* has sent on an accepted connection is eventually read by pollLoop.
C18_AcceptedRegisteredAndRead ==
    AcceptedGetsRegistered /\ QueuedGetsRead

\* the event pollLoop is handling, and whether the descriptor in it still
\* refers to the connection the event was reported for
Evt == evts[evtIdx]
EvtFdIsItsConn == FdIsOpen(Evt.fd) /\ ConnOfFd(Evt.fd) = Evt.conn

\* what the process ends with when the read or unpack() ends it
PollExits == {"read", "invalid proto message", "UnpackTo()", "invalid name",
              "std::out_of_range", "hardening assert"}

\* every connection but c is left as it is, unless the process ends
OthersUntouched(c) ==
    exitMsg' = "none" => \A b \in ConnIds \ {c} : conns'[b] = conns[b]

\* C19: in every interleaving of main and pollLoop, a read() is made on a
\* descriptor that is open and still refers to the connection the event was
\* reported for, so never on a connection pollLoop has closed; close() is
\* called on such a descriptor too and closes that connection, which is
\* never closed again or reopened; and neither touches another connection,
\* also when accept() has handed out again the descriptor number of a
\* connection closed before.
C19_EventsHitTheirConnection ==
    [][/\ (/\ pollPc = "in"
           /\ "EPOLLIN" \in Evt.events
           /\ pollPc' = "hup" \/ exitMsg' \in PollExits)
            => /\ EvtFdIsItsConn
               /\ last'.conn = Evt.conn
               /\ OthersUntouched(Evt.conn)
       /\ (pollPc = "hup" /\ pollPc' = "next"
              /\ Evt.events \cap {"EPOLLRDHUP", "EPOLLHUP"} # {})
            => /\ EvtFdIsItsConn
               /\ conns'[Evt.conn].st = "closed"
               /\ OthersUntouched(Evt.conn)
       /\ \A c \in ConnIds :
            /\ conns[c].st = "closed" => conns'[c].st \in {"closed", "gone"}
            /\ (conns[c].st = "open" /\ conns'[c].st = "closed")
                  => (pollPc = "hup" /\ Evt.conn = c)
            /\ (conns'[c].queue # conns[c].queue /\ Len(conns'[c].queue) < Len(conns[c].queue)
                   /\ exitMsg' = "none")
                  => (pollPc \in {"in", "hup"} /\ Evt.conn = c)]_vars

\* C19 happens: connection 1 was closed by pollLoop, accept() has given its
\* descriptor number to connection 2, and pollLoop has read a message from
\* connection 2 through it.
C19_Witness ==
    /\ conns[1].st = "closed"
    /\ conns[2].st = "open"
    /\ conns[2].fd = conns[1].fd
    /\ Unpacked
    /\ last.conn = 2
    /\ exitMsg = "none"

\* C20: a message holding its header whose header_size is exactly
\* total_size - 4, so that payload_size is 0, is reported as "Header size is
\* larger than message": ParseFromArray is not called, no callback is called
\* and the process runs.
C20_EmptyPayloadDropped ==
    (/\ Unpacked
     /\ last.bytes >= 6
     /\ ~U32Gt(last.res.message_size, U32OfNat(maxEventSize))
     /\ U32OfNat(4 + last.res.header_size) = last.res.message_size)
        => /\ last.res.payload_size = U32(0, 0)
           /\ last.res.log = "Header size is larger than message"
           /\ ~last.res.parsed
           /\ last.res.cb = "none"
           /\ last.res.exit = "none"
           /\ exitMsg = "none"

\* C20 happens: the ten-byte frame with total_size = 10 and header_size = 6
\* was dropped.
C20_Witness ==
    /\ Unpacked
    /\ last.buf = Frame(10, 6, 0, <<>>, <<>>)
    /\ last.res.log = "Header size is larger than message"
    /\ exitMsg = "none"

============================================================================
